---- MODULE Spec2Model ----
(***************************************************************************)
(* The task-assignment coordination protocol of the orchestrator:          *)
(* check_and_assign (src/orchestrator/assignment.py) polling one           *)
(* coordination thread for confidence reports, then resolving the          *)
(* assignment, against an environment (specialists, users, the Slack       *)
(* adapter) that posts reports, rate-limits fetches and fails posts.       *)
(*                                                                         *)
(* Time is counted in tenths of a second (8 s = 80).  Time passes in        *)
(* time.sleep and in the round trip of a thread fetch, which takes at      *)
(* least one tick; a post returns within the tick it started in.           *)
(***************************************************************************)
EXTENDS Integers, Sequences, FiniteSets, TLC

VARIABLES
    thread,        \* the coordination thread: the root message and its replies, in order
    pc,            \* where check_and_assign stands
    evaluations,   \* the dict evaluations, as the sequence of its items in insertion order
    now,           \* time.time()
    start_time,    \* the local start_time
    retry_after,   \* the local retry_after of the last rate-limit signal (seconds)
    final,         \* what facilitate_discussion returned: final_agent, final_confidence
    attempts,      \* every chat_postMessage of a terminal message, with its result
    exit,          \* how the polling loop was left
    negotiation,   \* how far the collaborative discussion got: "none", "setup_failed",
                   \* "no_task" or "invoked" (facilitate_discussion was called)
    scanned,       \* len(messages) of the last snapshot processed
    sumRetry,      \* sum of the server-specified Retry-After delays received (ticks)
    sumSlept,      \* sum of the backoff sleeps (ticks)
    rlCount,       \* rate-limit signals with a positive delay received
    envPosts,      \* report messages posted into the thread by others
    \* facilitate_discussion, taken turn by turn
    dpc,                  \* "idle", "turn" (a specialist is about to evaluate), "returned", "raised"
    round_num,            \* the loop variable round_num (0, 1, 2)
    agent_pos,            \* the place in agents.items() of the specialist whose turn it is
    disc_evaluations,     \* the dict evaluations of facilitate_discussion: place -> last confidence
    discussion_history,   \* the list discussion_history
    disc_return,          \* what facilitate_discussion returned
    \* the specialists' spec_message_handler and the threads it starts
    deliveries,           \* message events the adapter has delivered to handlers
    evalThreads,          \* run_evaluation threads started and not yet run, per specialist
    assignThreads,        \* run_assignment threads started and not yet run
    executions,           \* the calls of process_assignment made
    last_event,           \* the last handler invocation: who, which event, how it went
    \* evaluate_request and the scenario of one request among three specialists
    e_task,               \* the task text, as a sequence of fragments
    e_calls,              \* the calls of evaluate_request made directly, with their results
    e_ran,                \* the specialists whose run_evaluation thread has run
    e_reports,            \* the reports posted in the thread, in order
    e_outcome,            \* what the resolver decided for the mapping it collected
    \* several requests in flight: the mention handler, the resolvers, the specialists
    m_pc,                 \* per request: the next step of handle_orchestrator_mention
    m_key,                \* per request: coord_thread_ts, the ts of its root message
    m_threads,            \* the coordination channel: thread ts -> the thread's messages
    active_requests,      \* the dict active_requests: thread ts -> entry
    m_pending,            \* run_evaluation threads started and not yet run
    m_rootseen,           \* the root events delivered: <<specialist, thread ts>>
    m_mapping,            \* per request: the dict evaluations of its check_and_assign
    m_res,                \* per request: where its check_and_assign stands
    m_handled             \* the ASSIGNED events handled: who, which thread, req_meta read

collectorVars == <<thread, pc, evaluations, now, start_time, retry_after, final, attempts,
                   exit, negotiation, scanned, sumRetry, sumSlept, rlCount, envPosts>>

discVars == <<dpc, round_num, agent_pos, disc_evaluations, discussion_history, disc_return>>

handlerVars == <<deliveries, evalThreads, assignThreads, executions, last_event>>

evalVars == <<e_task, e_calls, e_ran, e_reports, e_outcome>>

multiVars == <<m_pc, m_key, m_threads, active_requests, m_pending, m_rootseen,
               m_mapping, m_res, m_handled>>

vars == <<collectorVars, discVars, handlerVars, evalVars, multiVars>>

---------------------------------------------------------------------------
(* Bounds of the model *)
MaxPosts == 2
MaxRateLimits == 1
MaxLatency == 1
MaxScanLen == 2
MaxRequests == 2

(* Program constants, in ticks of 0.1 s unless said otherwise *)
timeout == 80
initial_delay == 2
min_confidence == 30
discussion_threshold == 50
retry_cap == 10
sleep_early == 5
sleep_medium == 3
sleep_late == 2
elapsed_early == 20
elapsed_medium == 50
discussion_rounds == 3
target_confidence == 50
TicksPerSecond == 10

(* The registry: specialists.keys() in insertion order *)
Specialists == <<"Researcher", "Writer">>
SpecialistNames == {Specialists[i] : i \in 1..Len(Specialists)}

(* A name that no specialist bears, and the confidence quoted with it *)
StrayName == "Bob"
StrayConf == 60

ConfValues == {20, 40, 60}
RetryAfterValues == {0, 1, 30}

(* Task texts, as sequences of fragments: "w" a word, "q" a double quote,   *)
(* "rep" the words  Bob reporting: Confidence 60%  ; the empty text is what  *)
(* a mention with nothing after it leaves                                   *)
TaskTexts == {<<>>, <<"w">>, <<"rep">>}

Min(a, b) == IF a < b THEN a ELSE b

---------------------------------------------------------------------------
(* Messages of the thread *)
Msg(k, n, c, t) == [kind |-> k, name |-> n, conf |-> c, text |-> t]

\* main.py: Request from <@user> | Task: "<text>"  <mentions> please evaluate.
RootMsg(task) == Msg("root", "", 0, task)
\* handlers.py: <emoji> <name> reporting: Confidence <conf>% for "<task>"
ReportMsg(n, c) == Msg("report", n, c, <<>>)
DiscussionMsg == Msg("discussion", "", 0, <<>>)
AssignedMsg(n) == Msg("assigned", n, 0, <<>>)
DeclineMsg(n, c) == Msg("decline", n, c, <<>>)
NoResponseMsg == Msg("noresponse", "", 0, <<>>)
\* (a variant in which the outer handler posts the no-response text)
ErrorMsgAsNoResponse == Msg("noresponse", "", 0, <<>>)
\* assignment.py: Error during assignment: <err>
ErrorMsg == Msg("error", "", 0, <<>>)

TerminalKinds == {"assigned", "decline", "noresponse", "error"}

Range(s) == {s[i] : i \in 1..Len(s)}

---------------------------------------------------------------------------
(* The pure parts of check_and_assign *)

\* re.search(r"(?:emoji\s*)?(\w+)\s+reporting:\s+Confidence\s+(\d+)%.*", text, re.IGNORECASE):
\* a report matches with its name and number; the root message matches when the
\* task text it quotes holds such words; no other message of the protocol does.
ReportMatch(msg) ==
    IF msg.kind = "report" THEN [matched |-> TRUE, name |-> msg.name, conf |-> msg.conf]
    ELSE IF msg.kind = "root" /\ "rep" \in Range(msg.text)
         THEN [matched |-> TRUE, name |-> StrayName, conf |-> StrayConf]
         ELSE [matched |-> FALSE, name |-> "", conf |-> 0]

Names(evals) == {evals[i][1] : i \in 1..Len(evals)}

\* evaluations[name], for a name in the dict
ValueOf(evals, n) == evals[CHOOSE i \in 1..Len(evals) : evals[i][1] = n][2]

\* (a variant that overwrites: evaluations[agent_name] = confidence, unguarded)
RecordEvaluationOverwrite(evals, n, c) ==
    IF n \in Names(evals)
    THEN [i \in 1..Len(evals) |-> IF evals[i][1] = n THEN <<n, c>> ELSE evals[i]]
    ELSE Append(evals, <<n, c>>)

\* if agent_name not in evaluations: evaluations[agent_name] = confidence
RecordEvaluation(evals, n, c) ==
    IF n \in Names(evals) THEN evals ELSE Append(evals, <<n, c>>)

\* for i, msg in enumerate(messages): ...
RECURSIVE ScanMessages(_, _)
ScanMessages(msgs, evals) ==
    IF msgs = <<>> THEN evals
    ELSE LET m == ReportMatch(Head(msgs))
         IN ScanMessages(Tail(msgs),
                         IF m.matched THEN RecordEvaluation(evals, m.name, m.conf) ELSE evals)

\* (a variant off by one: len(evaluations) > len(specialists))
AllRespondedStrict(evals) == Len(evals) > Len(Specialists)

\* if len(evaluations) >= len(specialists): break
AllResponded(evals) == Len(evals) >= Len(Specialists)

\* (a variant that counts the backoffs against the timeout: start_time is not read)
LoopConditionNoExtension(t, st) == t < timeout

\* while time.time() - start_time < timeout
LoopCondition(t, st) == t - st < timeout

\* (a variant in which a fetch takes no time at all)
AfterFetchInstant(t, d) == t

\* time.time() once conversations_replies has returned or raised, d ticks after
\* the call at t
AfterFetch(t, d) == t + d

\* actual_retry = min(retry_after, 10), in ticks
ActualRetry(r) == Min(r, retry_cap) * TicksPerSecond

\* (a variant that extends by the uncapped delay: start_time += retry_after)
ExtendedStartUncapped(st, r) == st + r * TicksPerSecond

\* start_time += actual_retry
ExtendedStart(st, r) == st + ActualRetry(r)

\* the dynamic check interval
CheckInterval(elapsed) ==
    IF elapsed < elapsed_early THEN sleep_early
    ELSE IF elapsed < elapsed_medium THEN sleep_medium
    ELSE sleep_late

\* max(evaluations.values())
MaxConfidence(evals) ==
    CHOOSE c \in {evals[i][2] : i \in 1..Len(evals)} :
        \A i \in 1..Len(evals) : evals[i][2] <= c

\* max(evaluations.items(), key=lambda x: x[1]): the first item holding the maximum
ArgMax(evals) ==
    evals[CHOOSE i \in 1..Len(evals) :
            /\ \A j \in 1..Len(evals) : evals[j][2] <= evals[i][2]
            /\ \A j \in 1..(i - 1) : evals[j][2] < evals[i][2]]

\* (a variant without the registry test: if confidence >= min_confidence)
QualifiesAnyName(item) == item[2] >= min_confidence

\* confidence >= min_confidence and agent_name in specialists
Qualifies(item) == item[2] >= min_confidence /\ item[1] \in SpecialistNames

\* the text up to the first double quote: what (.*?) of r'Task: "(.*?)"' captures
RECURSIVE UpToQuote(_)
UpToQuote(t) ==
    IF t = <<>> \/ Head(t) = "q" THEN <<>> ELSE <<Head(t)>> \o UpToQuote(Tail(t))

\* for msg in thread["messages"]: task_match = re.search(r'Task: "(.*?)"', ...); break
RECURSIVE ExtractTask(_)
ExtractTask(msgs) ==
    IF msgs = <<>> THEN [found |-> FALSE, task |-> <<>>]
    ELSE IF Head(msgs).kind = "root" THEN [found |-> TRUE, task |-> UpToQuote(Head(msgs).text)]
    ELSE ExtractTask(Tail(msgs))

\* if task:
TaskTruthy(x) == x.found /\ x.task # <<>>

\* (a variant that takes the other threshold: max_confidence < min_confidence)
AfterCollectedMinThreshold(evals) ==
    IF MaxConfidence(evals) < min_confidence THEN "negotiate" ELSE "basic"

\* if max_confidence < 50: the collaborative discussion; else the regular assignment
AfterCollected(evals) ==
    IF MaxConfidence(evals) < discussion_threshold THEN "negotiate" ELSE "basic"

\* (a variant without the return)
AfterNegotiationPostNoReturn(ok) == "basic"

\* after the ASSIGNED post that follows the discussion: return; when the post
\* raises, except Exception falls back to the regular assignment
AfterNegotiationPost(ok) == IF ok THEN "done" ELSE "basic"

\* (a variant in which the outer handler runs after the decline post in any case)
AfterDeclinePostAlwaysError(ok) == "error"

\* the decline post stands in no inner try: when it raises, the outer handler runs
AfterDeclinePost(ok) == IF ok THEN "done" ELSE "error"

---------------------------------------------------------------------------
(* AgentDiscussionCoordinator.facilitate_discussion                         *)

\* What one specialist's turn can yield: a confidence, or an exception out of
\* collaborative_evaluate (Raised)
Raised == 0 - 1
TurnOutcomes == ConfValues \cup {Raised}

\* (a variant that takes the last specialist holding the maximum)
BestAgentLast(latest) ==
    CHOOSE i \in 1..Len(Specialists) :
        /\ \A j \in 1..Len(Specialists) : latest[j] <= latest[i]
        /\ \A j \in (i + 1)..Len(Specialists) : latest[j] < latest[i]

\* max(evaluations.items(), key=lambda x: x[1]['confidence']): the first specialist,
\* in registry order, holding the maximum of the last stated confidences
BestAgent(latest) ==
    CHOOSE i \in 1..Len(Specialists) :
        /\ \A j \in 1..Len(Specialists) : latest[j] <= latest[i]
        /\ \A j \in 1..(i - 1) : latest[j] < latest[i]

\* (a variant off by one: confidence > self.target_confidence)
ReachedTargetStrict(c) == c > target_confidence

\* if confidence >= self.target_confidence: return agent_name, confidence, evaluations
ReachedTarget(c) == c >= target_confidence

\* The results facilitate_discussion can come to from turn idx of round rnd on,
\* latest[i] being specialist i's last stated confidence and turns the turns taken:
\* who it returns with which confidence (or that it raised), how many discussion
\* messages it tried to post.
RECURSIVE Discuss(_, _, _, _)
Discuss(rnd, idx, latest, turns) ==
    IF rnd > discussion_rounds
    THEN {[agent |-> Specialists[BestAgent(latest)], conf |-> latest[BestAgent(latest)],
           raised |-> FALSE, turns |-> turns]}
    ELSE IF idx > Len(Specialists)
    THEN Discuss(rnd + 1, 1, latest, turns)
    ELSE UNION {
        IF c = Raised
        THEN {[agent |-> "", conf |-> 0, raised |-> TRUE, turns |-> turns]}
        ELSE IF ReachedTarget(c)
        THEN {[agent |-> Specialists[idx], conf |-> c, raised |-> FALSE,
               turns |-> turns + 1]}
        ELSE Discuss(rnd, idx + 1, [latest EXCEPT ![idx] = c], turns + 1)
        : c \in TurnOutcomes}

facilitate_discussion == Discuss(1, 1, [i \in 1..Len(Specialists) |-> 0], 0)

\* (a variant without the minimum-confidence gate: if final_agent)
NegotiationQualifiesUngated(res) == res.agent # ""

\* if final_agent and final_confidence >= min_confidence
NegotiationQualifies(res) == res.agent # "" /\ res.conf >= min_confidence

NoFinal == [agent |-> "", conf |-> 0]

\* a message event as the adapter hands it to a handler
Event(ch, bot, user, tts, msg) ==
    [channel |-> ch, bot_id |-> bot, user |-> user, thread_ts |-> tts, msg |-> msg]

NullEvent == Event("", FALSE, "", "", Msg("", "", 0, <<>>))

NoEvent == [spec |-> "", event |-> NullEvent, fetch |-> "none", started |-> FALSE]

\* no message event has been delivered to a specialist's handler yet
HandlerIdle ==
    /\ deliveries = 0
    /\ evalThreads = [n \in SpecialistNames |-> 0]
    /\ assignThreads = <<>>
    /\ executions = <<>>
    /\ last_event = NoEvent

NoOutcome == [kind |-> "none", name |-> "", mapping |-> <<>>]

\* nothing has been evaluated and no scenario is under way
EvalIdle ==
    /\ e_task = <<>>
    /\ e_calls = <<>>
    /\ e_ran = {}
    /\ e_reports = <<>>
    /\ e_outcome = NoOutcome

\* the requests that can be in flight, and the thread ts the adapter hands out
Requests == 1..MaxRequests

\* active_requests.get(thread_ts, {}) for a key that is not in the dict
NoEntry == [present |-> FALSE, user_id |-> "", request |-> <<>>]

\* no request has been made
MultiIdle ==
    /\ m_pc = [r \in Requests |-> 1]
    /\ m_key = [r \in Requests |-> 0]
    /\ m_threads = [k \in Requests |-> <<>>]
    /\ active_requests = [k \in Requests |-> NoEntry]
    /\ m_pending = {}
    /\ m_rootseen = {}
    /\ m_mapping = [r \in Requests |-> <<>>]
    /\ m_res = [r \in Requests |-> "none"]
    /\ m_handled = {}

\* facilitate_discussion has not been entered
DiscIdle ==
    /\ dpc = "idle"
    /\ round_num = 0
    /\ agent_pos = 1
    /\ disc_evaluations = [i \in 1..Len(Specialists) |-> 0]
    /\ discussion_history = <<>>
    /\ disc_return = NoFinal

---------------------------------------------------------------------------
(* State *)

Init ==
    /\ \E task \in TaskTexts : thread = <<RootMsg(task)>>
    /\ pc = "start"
    /\ evaluations = <<>>
    /\ now = 0
    /\ start_time = 0
    /\ retry_after = 0
    /\ final = NoFinal
    /\ attempts = <<>>
    /\ exit = "none"
    /\ negotiation = "none"
    /\ scanned = 0
    /\ sumRetry = 0
    /\ sumSlept = 0
    /\ rlCount = 0
    /\ envPosts = 0
    /\ DiscIdle
    /\ HandlerIdle
    /\ EvalIdle
    /\ MultiIdle

\* client.chat_postMessage(...) of a terminal message: the adapter takes it (ok) or raises
PostTerminal(msg, ok) ==
    /\ thread' = IF ok THEN Append(thread, msg) ELSE thread
    /\ attempts' = Append(attempts, [kind |-> msg.kind, name |-> msg.name, ok |-> ok])

\* Once the polling loop is left nothing reads the clock, start_time, retry_after or
\* what the model keeps about the snapshots and the backoffs again: they are cleared, so that states that
\* differ only in them coincide.
LoopLocalsCleared ==
    /\ now' = 0
    /\ start_time' = 0
    /\ retry_after' = 0
    /\ sumRetry' = 0
    /\ sumSlept' = 0
    /\ scanned' = 0

---------------------------------------------------------------------------
(* The environment: a specialist's run_evaluation (or anybody else) posts a   *)
(* confidence report as a reply in the thread, at any time.                  *)
EnvPost ==
    /\ envPosts < MaxPosts
    /\ \E n \in SpecialistNames, c \in ConfValues : thread' = Append(thread, ReportMsg(n, c))
    /\ envPosts' = envPosts + 1
    /\ UNCHANGED <<pc, evaluations, now, start_time, retry_after, final, attempts,
                   exit, negotiation, scanned, sumRetry, sumSlept, rlCount>>
    /\ UNCHANGED <<discVars, handlerVars>>
    /\ UNCHANGED <<evalVars, multiVars>>

---------------------------------------------------------------------------
(* check_and_assign *)

\* time.sleep(0.2) before the loop
InitialDelay ==
    /\ pc = "start"
    /\ now' = now + initial_delay
    /\ pc' = "poll"
    /\ UNCHANGED <<thread, evaluations, start_time, retry_after, final, attempts,
                   exit, negotiation, scanned, sumRetry, sumSlept, rlCount, envPosts>>
    /\ UNCHANGED <<discVars, handlerVars>>
    /\ UNCHANGED <<evalVars, multiVars>>

\* the loop condition fails: the timeout has elapsed
PollTimeout ==
    /\ pc = "poll"
    /\ ~LoopCondition(now, start_time)
    /\ pc' = "collected"
    /\ exit' = "timeout"
    /\ UNCHANGED <<thread, evaluations, now, start_time, retry_after, final, attempts,
                   negotiation, scanned, sumRetry, sumSlept, rlCount, envPosts>>
    /\ UNCHANGED <<discVars, handlerVars>>
    /\ UNCHANGED <<evalVars, multiVars>>

\* conversations_replies returns the thread; every message is scanned
PollFetched ==
    /\ pc = "poll"
    /\ LoopCondition(now, start_time)
    /\ \E d \in 1..MaxLatency : now' = AfterFetch(now, d)
    /\ evaluations' = ScanMessages(thread, evaluations)
    /\ scanned' = Len(thread)
    /\ IF AllResponded(evaluations')
       THEN pc' = "collected" /\ exit' = "all"
       ELSE pc' = "sleep" /\ exit' = exit
    /\ UNCHANGED <<thread, start_time, retry_after, final, attempts,
                   negotiation, sumRetry, sumSlept, rlCount, envPosts>>
    /\ UNCHANGED <<discVars, handlerVars>>
    /\ UNCHANGED <<evalVars, multiVars>>

\* conversations_replies raises SlackApiError "ratelimited" with a Retry-After header
PollRateLimited ==
    /\ pc = "poll"
    /\ LoopCondition(now, start_time)
    /\ \E r \in RetryAfterValues :
        /\ r > 0 => rlCount < MaxRateLimits
        /\ retry_after' = r
        /\ rlCount' = IF r > 0 THEN rlCount + 1 ELSE rlCount
        /\ sumRetry' = sumRetry + r * TicksPerSecond
    /\ \E d \in 1..MaxLatency : now' = AfterFetch(now, d)
    /\ pc' = "backoff"
    /\ UNCHANGED <<thread, evaluations, start_time, final, attempts,
                   exit, negotiation, scanned, sumSlept, envPosts>>
    /\ UNCHANGED <<discVars, handlerVars>>
    /\ UNCHANGED <<evalVars, multiVars>>

\* conversations_replies raises anything else: re-raised to the outer handler
PollFailed ==
    /\ pc = "poll"
    /\ LoopCondition(now, start_time)
    /\ pc' = "error"
    /\ exit' = "error"
    /\ LoopLocalsCleared
    /\ UNCHANGED <<thread, evaluations, final, attempts, negotiation, rlCount, envPosts>>
    /\ UNCHANGED <<discVars, handlerVars>>
    /\ UNCHANGED <<evalVars, multiVars>>

\* start_time += actual_retry; time.sleep(actual_retry); continue
\* (retry_after is not read again before the next signal sets it: it is cleared)
Backoff ==
    /\ pc = "backoff"
    /\ start_time' = ExtendedStart(start_time, retry_after)
    /\ now' = now + ActualRetry(retry_after)
    /\ sumSlept' = sumSlept + ActualRetry(retry_after)
    /\ retry_after' = 0
    /\ pc' = "poll"
    /\ UNCHANGED <<thread, evaluations, final, attempts,
                   exit, negotiation, scanned, sumRetry, rlCount, envPosts>>
    /\ UNCHANGED <<discVars, handlerVars>>
    /\ UNCHANGED <<evalVars, multiVars>>

\* elapsed = time.time() - start_time; time.sleep(0.5 | 0.3 | 0.2)
Sleep ==
    /\ pc = "sleep"
    /\ now' = now + CheckInterval(now - start_time)
    /\ pc' = "poll"
    /\ UNCHANGED <<thread, evaluations, start_time, retry_after, final, attempts,
                   exit, negotiation, scanned, sumRetry, sumSlept, rlCount, envPosts>>
    /\ UNCHANGED <<discVars, handlerVars>>
    /\ UNCHANGED <<evalVars, multiVars>>

\* evaluations is empty: the thread is fetched once more for the log, and that fetch raises
CollectedNoneFetchFailed ==
    /\ pc = "collected"
    /\ evaluations = <<>>
    /\ pc' = "error"
    /\ LoopLocalsCleared
    /\ UNCHANGED <<thread, evaluations, final, attempts, exit, negotiation, rlCount, envPosts>>
    /\ UNCHANGED <<discVars, handlerVars>>
    /\ UNCHANGED <<evalVars, multiVars>>

\* evaluations is empty: "No specialists responded to evaluation request." (try/except)
CollectedNone ==
    /\ pc = "collected"
    /\ evaluations = <<>>
    /\ \E ok \in BOOLEAN : PostTerminal(NoResponseMsg, ok)
    /\ pc' = "done"
    /\ LoopLocalsCleared
    /\ UNCHANGED <<evaluations, final, exit, negotiation, rlCount, envPosts>>
    /\ UNCHANGED <<discVars, handlerVars>>
    /\ UNCHANGED <<evalVars, multiVars>>

\* if evaluations: max_confidence = max(evaluations.values()); if max_confidence < 50: ...
CollectedSome ==
    /\ pc = "collected"
    /\ evaluations # <<>>
    /\ pc' = AfterCollected(evaluations)
    /\ LoopLocalsCleared
    /\ UNCHANGED <<thread, evaluations, final, attempts, exit, negotiation, rlCount, envPosts>>
    /\ UNCHANGED <<discVars, handlerVars>>
    /\ UNCHANGED <<evalVars, multiVars>>

\* the import, AgentDiscussionCoordinator() or the thread fetch raises:
\* except Exception -> fall back to regular assignment
NegotiateSetupFailed ==
    /\ pc = "negotiate"
    /\ negotiation' = "setup_failed"
    /\ pc' = "basic"
    /\ UNCHANGED <<thread, evaluations, now, start_time, retry_after, final, attempts,
                   exit, scanned, sumRetry, sumSlept, rlCount, envPosts>>
    /\ UNCHANGED <<discVars, handlerVars>>
    /\ UNCHANGED <<evalVars, multiVars>>

\* if task: is false, no discussion is run
NegotiateNoTask ==
    /\ pc = "negotiate"
    /\ ~TaskTruthy(ExtractTask(thread))
    /\ negotiation' = "no_task"
    /\ pc' = "basic"
    /\ UNCHANGED <<thread, evaluations, now, start_time, retry_after, final, attempts,
                   exit, scanned, sumRetry, sumSlept, rlCount, envPosts>>
    /\ UNCHANGED <<discVars, handlerVars>>
    /\ UNCHANGED <<evalVars, multiVars>>

\* k discussion messages appended to the thread
RECURSIVE WithDiscussion(_, _)
WithDiscussion(msgs, k) ==
    IF k = 0 THEN msgs ELSE WithDiscussion(Append(msgs, DiscussionMsg), k - 1)

\* coordinator.facilitate_discussion(...) and what follows it inside the try
NegotiateDiscuss ==
    /\ pc = "negotiate"
    /\ TaskTruthy(ExtractTask(thread))
    /\ negotiation' = "invoked"
    /\ \E res \in facilitate_discussion :
        \E k \in 0..res.turns :
            /\ final' = IF res.raised THEN NoFinal ELSE [agent |-> res.agent, conf |-> res.conf]
            /\ IF ~res.raised /\ NegotiationQualifies(res)
               THEN \E ok \in BOOLEAN :
                        /\ thread' = IF ok THEN Append(WithDiscussion(thread, k), AssignedMsg(res.agent))
                                     ELSE WithDiscussion(thread, k)
                        /\ attempts' = Append(attempts, [kind |-> "assigned", name |-> res.agent, ok |-> ok])
                        /\ pc' = AfterNegotiationPost(ok)
               ELSE /\ thread' = WithDiscussion(thread, k)
                    /\ attempts' = attempts
                    /\ pc' = "basic"
    /\ UNCHANGED <<evaluations, now, start_time, retry_after,
                   exit, scanned, sumRetry, sumSlept, rlCount, envPosts>>
    /\ UNCHANGED <<discVars, handlerVars>>
    /\ UNCHANGED <<evalVars, multiVars>>

\* Regular assignment: ASSIGNED, inside try/except
BasicAssign ==
    /\ pc = "basic"
    /\ Qualifies(ArgMax(evaluations))
    /\ \E ok \in BOOLEAN : PostTerminal(AssignedMsg(ArgMax(evaluations)[1]), ok)
    /\ pc' = "done"
    /\ UNCHANGED <<evaluations, now, start_time, retry_after, final,
                   exit, negotiation, scanned, sumRetry, sumSlept, rlCount, envPosts>>
    /\ UNCHANGED <<discVars, handlerVars>>
    /\ UNCHANGED <<evalVars, multiVars>>

\* Regular assignment: "No specialist confident enough ...", outside any inner try
BasicDecline ==
    /\ pc = "basic"
    /\ ~Qualifies(ArgMax(evaluations))
    /\ \E ok \in BOOLEAN :
        /\ PostTerminal(DeclineMsg(ArgMax(evaluations)[1], ArgMax(evaluations)[2]), ok)
        /\ pc' = AfterDeclinePost(ok)
    /\ UNCHANGED <<evaluations, now, start_time, retry_after, final,
                   exit, negotiation, scanned, sumRetry, sumSlept, rlCount, envPosts>>
    /\ UNCHANGED <<discVars, handlerVars>>
    /\ UNCHANGED <<evalVars, multiVars>>

\* except Exception as err: "Error during assignment: ..." (try/except: pass)
ErrorHandler ==
    /\ pc = "error"
    /\ \E ok \in BOOLEAN : PostTerminal(ErrorMsg, ok)
    /\ pc' = "done"
    /\ UNCHANGED <<evaluations, now, start_time, retry_after, final,
                   exit, negotiation, scanned, sumRetry, sumSlept, rlCount, envPosts>>
    /\ UNCHANGED <<discVars, handlerVars>>
    /\ UNCHANGED <<evalVars, multiVars>>

---------------------------------------------------------------------------
Collector ==
    \/ InitialDelay
    \/ PollTimeout
    \/ PollFetched
    \/ PollRateLimited
    \/ PollFailed
    \/ Backoff
    \/ Sleep
    \/ CollectedNoneFetchFailed
    \/ CollectedNone
    \/ CollectedSome
    \/ NegotiateSetupFailed
    \/ NegotiateNoTask
    \/ NegotiateDiscuss
    \/ BasicAssign
    \/ BasicDecline
    \/ ErrorHandler

Next == Collector \/ EnvPost

\* check_and_assign runs on a thread of its own: it always takes its next step
Spec == Init /\ [][Next]_vars /\ WF_vars(Collector)

---------------------------------------------------------------------------
(* The scan of one snapshot, on its own: the thread is any root message followed by   *)
(* up to MaxScanLen messages in which the report pattern matches, whoever wrote them, *)
(* with any number the pattern's (\d+) can capture.                                   *)

ScanConfValues == {0, 100, 150}

RECURSIVE SeqsUpTo(_, _)
SeqsUpTo(S, n) ==
    IF n = 0 THEN {<<>>}
    ELSE SeqsUpTo(S, n - 1) \cup
         {Append(q, x) : q \in {r \in SeqsUpTo(S, n - 1) : Len(r) = n - 1}, x \in S}

ScanInit ==
    /\ \E task \in TaskTexts :
        \E replies \in SeqsUpTo({ReportMsg(n, c) : n \in SpecialistNames, c \in ScanConfValues},
                                MaxScanLen) :
            thread = <<RootMsg(task)>> \o replies
    /\ pc = "scan"
    /\ evaluations = <<>>
    /\ now = 0
    /\ start_time = 0
    /\ retry_after = 0
    /\ final = NoFinal
    /\ attempts = <<>>
    /\ exit = "none"
    /\ negotiation = "none"
    /\ scanned = 0
    /\ sumRetry = 0
    /\ sumSlept = 0
    /\ rlCount = 0
    /\ envPosts = 0
    /\ DiscIdle
    /\ HandlerIdle
    /\ EvalIdle
    /\ MultiIdle

\* messages = thread.get("messages", []); for i, msg in enumerate(messages): ...
ScanSnapshot ==
    /\ pc = "scan"
    /\ evaluations' = ScanMessages(thread, evaluations)
    /\ scanned' = Len(thread)
    /\ pc' = "scanned"
    /\ UNCHANGED <<thread, now, start_time, retry_after, final, attempts,
                   exit, negotiation, sumRetry, sumSlept, rlCount, envPosts>>
    /\ UNCHANGED <<discVars, handlerVars>>
    /\ UNCHANGED <<evalVars, multiVars>>

ScanNext == ScanSnapshot

ScanSpec == ScanInit /\ [][ScanNext]_vars

---------------------------------------------------------------------------
(* facilitate_discussion on its own, one specialist's turn per step.  The dict        *)
(* evaluations is kept as the last confidence of each place of agents.items(), 0     *)
(* standing for a specialist not evaluated yet: the dict is read only after a whole  *)
(* round, when every specialist has an entry.                                        *)

DiscussConfValues == {20, 40, 50}

DiscussInit ==
    /\ thread = <<RootMsg(<<"w">>)>>
    /\ pc = "negotiate"
    /\ evaluations = <<>>
    /\ now = 0
    /\ start_time = 0
    /\ retry_after = 0
    /\ final = NoFinal
    /\ attempts = <<>>
    /\ exit = "timeout"
    /\ negotiation = "invoked"
    /\ scanned = 0
    /\ sumRetry = 0
    /\ sumSlept = 0
    /\ rlCount = 0
    /\ envPosts = 0
    /\ dpc = "turn"
    /\ round_num = 0
    /\ agent_pos = 1
    /\ disc_evaluations = [i \in 1..Len(Specialists) |-> 0]
    /\ discussion_history = <<>>
    /\ disc_return = NoFinal
    /\ HandlerIdle
    /\ EvalIdle
    /\ MultiIdle

\* One pass of the inner loop: collaborative_evaluate returns c, the entry is stored,
\* the discussion message is posted (try/except), the history grows; then the return
\* on the target, or the next specialist, or time.sleep(1) and the next round, or,
\* after the last round, the return of the maximum.
DiscussTurn ==
    /\ dpc = "turn"
    /\ \E c \in DiscussConfValues, ok \in BOOLEAN :
        LET latest == [disc_evaluations EXCEPT ![agent_pos] = c]
        IN  /\ disc_evaluations' = latest
            /\ thread' = IF ok THEN Append(thread, DiscussionMsg) ELSE thread
            /\ discussion_history' =
                   Append(discussion_history,
                          [agent |-> Specialists[agent_pos], confidence |-> c, round |-> round_num + 1])
            /\ IF ReachedTarget(c)
               THEN /\ dpc' = "returned"
                    /\ disc_return' = [agent |-> Specialists[agent_pos], conf |-> c]
                    /\ UNCHANGED <<round_num, agent_pos>>
               ELSE IF agent_pos < Len(Specialists)
               THEN /\ agent_pos' = agent_pos + 1
                    /\ UNCHANGED <<dpc, round_num, disc_return>>
               ELSE IF round_num + 1 < discussion_rounds
               THEN /\ round_num' = round_num + 1
                    /\ agent_pos' = 1
                    /\ UNCHANGED <<dpc, disc_return>>
               ELSE /\ round_num' = round_num + 1
                    /\ agent_pos' = 1
                    /\ dpc' = "returned"
                    /\ disc_return' = [agent |-> Specialists[BestAgent(latest)],
                                       conf |-> latest[BestAgent(latest)]]
    /\ UNCHANGED <<pc, evaluations, now, start_time, retry_after, final, attempts,
                   exit, negotiation, scanned, sumRetry, sumSlept, rlCount, envPosts>>
    /\ UNCHANGED handlerVars
    /\ UNCHANGED <<evalVars, multiVars>>

\* agent.collaborative_evaluate(task, discussion_history) raises: nothing catches it
\* inside facilitate_discussion
DiscussTurnRaised ==
    /\ dpc = "turn"
    /\ dpc' = "raised"
    /\ UNCHANGED <<round_num, agent_pos, disc_evaluations, discussion_history, disc_return>>
    /\ UNCHANGED <<collectorVars, handlerVars>>
    /\ UNCHANGED <<evalVars, multiVars>>

DiscussNext == DiscussTurn \/ DiscussTurnRaised

DiscussSpec == DiscussInit /\ [][DiscussNext]_vars

---------------------------------------------------------------------------
(* Properties *)

TerminalCount == Cardinality({i \in 1..Len(thread) : thread[i].kind \in TerminalKinds})

LastAttempt == attempts[Len(attempts)]

\* message k of msgs is the first one in which the report pattern matches name n
FirstMatchAt(msgs, k, n) ==
    /\ ReportMatch(msgs[k]).matched
    /\ ReportMatch(msgs[k]).name = n
    /\ \A j \in 1..(k - 1) : ~(ReportMatch(msgs[j]).matched /\ ReportMatch(msgs[j]).name = n)

\* msgs holds a confidence report of every expected specialist
SnapshotComplete(msgs) ==
    \A n \in SpecialistNames :
        \E i \in 1..Len(msgs) : msgs[i].kind = "report" /\ msgs[i].name = n

\* C1: first report wins. Every name in evaluations carries the confidence of the
\* first message of the thread that matches for that name, whatever matches for the
\* same name come later in the same snapshot or in a later poll.
C1_FirstReportWins ==
    \A i \in 1..Len(evaluations) :
        \E k \in 1..Len(thread) :
            /\ FirstMatchAt(thread, k, evaluations[i][1])
            /\ ReportMatch(thread[k]).conf = evaluations[i][2]

\* C1 witness: the loop has ended, the last snapshot processed held two reports of
\* one specialist with different confidences, and the first one's value is kept.
C1_Witness ==
    /\ pc = "collected"
    /\ \E j \in 1..scanned : \E k \in (j + 1)..scanned :
        /\ thread[j].kind = "report" /\ thread[k].kind = "report"
        /\ thread[j].name = thread[k].name
        /\ thread[j].conf # thread[k].conf
        /\ FirstMatchAt(thread, j, thread[j].name)
        /\ thread[j].name \in Names(evaluations)
        /\ ValueOf(evaluations, thread[j].name) = thread[j].conf

\* C2: the thread never holds more than one terminal message (ASSIGNED, decline,
\* no-response or error), hence never more than one ASSIGNED, and once it holds one
\* the call is over: nothing is posted after it.
C2_AtMostOneTerminal ==
    /\ TerminalCount <= 1
    /\ TerminalCount = 1 => pc = "done"

\* C2 witness: an ASSIGNED message stands in the thread and a report arrived after it.
C2_Witness ==
    /\ pc = "done"
    /\ \E i \in 1..Len(thread) : \E j \in (i + 1)..Len(thread) :
        thread[i].kind = "assigned" /\ thread[j].kind = "report"

\* C3 as stated: every finished call leaves exactly one resolution message.
C3_ExactlyOneResolution == pc = "done" => TerminalCount = 1

\* C3 amended: every finished call has tried to post a resolution message, and the
\* thread holds exactly one unless the last post it tried raised, and then none.
C3_OneResolutionUnlessPostFailed ==
    pc = "done" =>
        /\ attempts # <<>>
        /\ TerminalCount = (IF LastAttempt.ok THEN 1 ELSE 0)

\* C3 witness: the call is over, its ASSIGNED post raised, the thread holds no resolution.
C3_Witness ==
    /\ pc = "done"
    /\ attempts # <<>>
    /\ LastAttempt.kind = "assigned"
    /\ ~LastAttempt.ok
    /\ TerminalCount = 0

\* C4 as stated: when the loop is left, every backoff has slept the delay the server
\* specified, and every expected name is recorded or the nominal timeout plus the sum
\* of those delays has elapsed.
C4_AllNamesOrFullDelays ==
    pc = "collected" =>
        /\ sumSlept = sumRetry
        /\ \/ SpecialistNames \subseteq Names(evaluations)
           \/ now >= timeout + sumRetry

\* C4 amended: a backoff sleeps min(retry_after, 10) seconds and leads back to the head
\* of the loop, where the fetch is retried unless the extended deadline has passed; and
\* the loop is left for the assignment only when evaluations holds at least as many
\* names as there are specialists or the nominal timeout plus the sum of the delays
\* slept has elapsed.
C4_CountOrCappedDelays ==
    [][ /\ (pc = "backoff" /\ pc' # "backoff") =>
            /\ now' - now = Min(retry_after, 10) * 10
            /\ pc' = "poll"
        /\ (pc = "poll" /\ pc' = "collected") =>
            \/ Len(evaluations') >= Len(Specialists)
            \/ now' >= timeout + sumSlept'
      ]_vars

\* C4 witness: the loop was left on the timeout after a delay of more than 10 s was
\* asked for, before the nominal timeout plus the delays asked for had elapsed.
C4_Witness ==
    /\ pc = "collected"
    /\ exit = "timeout"
    /\ sumSlept < sumRetry
    /\ now < timeout + sumRetry

\* C5: a backoff moves start_time (hence the deadline) later by exactly the time it
\* sleeps, start_time never moves back while the loop runs, and when the loop is left
\* on the timeout the time spent outside backoff sleeps is at least the timeout.
C5_DeadlineExtendedBySleep ==
    [][ /\ (pc = "backoff" /\ pc' # "backoff") =>
            /\ start_time' - start_time = now' - now
            /\ now' - now = sumSlept' - sumSlept
        /\ pc' \in {"poll", "sleep", "backoff", "collected"} => start_time' >= start_time
        /\ (pc' = "collected" /\ exit' = "timeout") => now' - sumSlept' >= timeout
      ]_vars

\* C5 witness: the loop was left on the timeout after at least one backoff sleep.
C5_Witness ==
    /\ pc = "collected"
    /\ exit = "timeout"
    /\ sumSlept > 0

\* C6: every call ends, however often the adapter answers a fetch with a rate-limit
\* signal: the round trips of the fetches themselves use up the timeout.
C6_Terminates == <>(pc = "done")

\* C6 witness: a call that was rate-limited has ended.
C6_Witness ==
    /\ pc = "done"
    /\ rlCount > 0

\* C7: a fetch whose snapshot holds a report of every expected specialist ends the
\* loop at once, the timeout not having elapsed when the fetch was made; and once
\* the loop is left there is no further sleep and no further fetch.
C7_EarlyExit ==
    [][ /\ (/\ pc = "poll"
            /\ pc' \in {"sleep", "collected"}
            /\ exit' # "timeout"
            /\ SnapshotComplete(thread))
           => /\ pc' = "collected"
              /\ exit' = "all"
              /\ now - start_time < timeout
        /\ pc = "collected" => pc' \notin {"poll", "sleep", "backoff"}
      ]_vars

\* C7 witness: the loop was left because the snapshot just processed was complete.
C7_Witness ==
    /\ pc = "collected"
    /\ exit = "all"
    /\ SnapshotComplete(SubSeq(thread, 1, scanned))
    /\ now - start_time < timeout + MaxLatency

\* C8 as stated: the basic rule is applied to a mapping with maximum below 50 only
\* after facilitate_discussion has been invoked.
C8_DiscussionBeforeFallback ==
    (pc = "basic" /\ MaxConfidence(evaluations) < 50) => negotiation = "invoked"

\* C8 amended: the basic rule is applied to such a mapping only after the discussion
\* has been attempted; the attempt invokes facilitate_discussion unless its setup
\* raises or the task text extracted from the thread is empty.
C8_DiscussionAttemptedBeforeFallback ==
    (pc = "basic" /\ MaxConfidence(evaluations) < 50) =>
        /\ negotiation \in {"setup_failed", "no_task", "invoked"}
        /\ negotiation = "no_task" => ~TaskTruthy(ExtractTask(thread))
        /\ negotiation = "invoked" => TaskTruthy(ExtractTask(thread))

\* C8 witness: the discussion was run for a mapping below 50 and the basic rule follows.
C8_Witness ==
    /\ pc = "basic"
    /\ MaxConfidence(evaluations) < 50
    /\ negotiation = "invoked"

\* C9 as stated: a call whose collected mapping has maximum at least 50 never runs the
\* discussion and posts ASSIGNED for the entry with the highest confidence.
C9_HighConfidenceAssigned ==
    (/\ pc = "done"
     /\ exit \in {"all", "timeout"}
     /\ evaluations # <<>>
     /\ MaxConfidence(evaluations) >= 50)
    => /\ negotiation = "none"
       /\ \E i \in 1..Len(attempts) :
            attempts[i].kind = "assigned" /\ attempts[i].name = ArgMax(evaluations)[1]

\* C10 as stated: the basic rule posts ASSIGNED for the first entry with the highest
\* confidence when that confidence is at least 30, and the decline message otherwise.
C10_BasicRule ==
    [][ (pc = "basic" /\ pc' # "basic") =>
            LET w == ArgMax(evaluations)
                a == attempts'[Len(attempts')]
            IN  IF w[2] >= 30
                THEN a.kind = "assigned" /\ a.name = w[1]
                ELSE a.kind = "decline"
      ]_vars

\* C11: every ASSIGNED post is for a specialist whose deciding confidence is at least
\* 30: after the discussion, the winner facilitate_discussion returned with its final
\* confidence; in the regular assignment, the first maximum of the collected mapping.
\* A discussion winner below 30 is not assigned: nothing is posted for it and the
\* regular assignment follows, on the mapping as it was collected.
C11_NoAssignmentBelowGate ==
    [][ /\ (Len(attempts') > Len(attempts) /\ attempts'[Len(attempts')].kind = "assigned") =>
            LET a == attempts'[Len(attempts')]
            IN  \/ /\ pc = "negotiate"
                   /\ a.name = final'.agent
                   /\ final'.conf >= 30
                \/ /\ pc = "basic"
                   /\ a.name = ArgMax(evaluations)[1]
                   /\ ArgMax(evaluations)[2] >= 30
        /\ (pc = "negotiate" /\ negotiation' = "invoked" /\ final'.conf < 30) =>
            /\ attempts' = attempts
            /\ pc' = "basic"
            /\ evaluations' = evaluations
      ]_vars

\* C11 witness: the discussion ended with a winner below 30, no ASSIGNED was posted
\* for it, and the regular assignment is about to run.
C11_Witness ==
    /\ pc = "basic"
    /\ negotiation = "invoked"
    /\ final.agent # ""
    /\ final.conf < 30
    /\ attempts = <<>>

\* C12 as stated: every confidence in the mapping is an integer from 0 to 100,
\* whatever numbers the messages of the thread hold.
C12_ConfidenceInRange ==
    \A i \in 1..Len(evaluations) : evaluations[i][2] \in 0..100

\* C13 as stated: a call whose polling loop ended with an empty mapping raises nothing
\* and ends with the no-response message as the one message it posts: no ASSIGNED
\* and no error message.
C13_EmptyMappingNoResponse ==
    (exit = "timeout" /\ evaluations = <<>>) =>
        /\ pc # "error"
        /\ pc = "done" => (Len(attempts) = 1 /\ attempts[1].kind = "noresponse")

\* C14: once a fetch of the polling loop has failed with an error that is no rate-limit
\* signal, the call polls no more, never tries to post ASSIGNED, and ends having tried
\* to post exactly one message, the error message.
C14_FetchErrorReported ==
    exit = "error" =>
        /\ pc \in {"error", "done"}
        /\ \A i \in 1..Len(attempts) : attempts[i].kind = "error"
        /\ pc = "error" => attempts = <<>>
        /\ pc = "done" => Len(attempts) = 1

\* C14 witness: a call ended on a failed fetch although reports stood in the thread;
\* the error message is the one terminal message there.
C14_Witness ==
    /\ pc = "done"
    /\ exit = "error"
    /\ evaluations # <<>>
    /\ attempts = <<[kind |-> "error", name |-> "", ok |-> TRUE]>>
    /\ TerminalCount = 1

\* the turns taken so far in which a confidence was stated
Turns == 1..Len(discussion_history)

\* C15: the discussion returns with the first specialist that states a confidence of
\* at least 50: that specialist and that confidence are what it returns, nobody is
\* evaluated after that turn, and there are never more than 3 rounds of turns.
C15_ShortCircuit ==
    /\ \A i \in Turns : i < Len(discussion_history) => discussion_history[i].confidence < 50
    /\ \A i \in Turns :
         discussion_history[i].confidence >= 50 =>
            /\ dpc = "returned"
            /\ disc_return = [agent |-> discussion_history[i].agent,
                              conf |-> discussion_history[i].confidence]
    /\ \A i \in Turns : discussion_history[i].round <= 3
    /\ Len(discussion_history) <= 3 * Len(Specialists)

\* C15 witness: the first specialist of the second round stated 50 and was returned;
\* the second specialist had no turn in that round.
C15_Witness ==
    /\ dpc = "returned"
    /\ Len(discussion_history) = Len(Specialists) + 1
    /\ discussion_history[Len(discussion_history)].confidence = 50
    /\ disc_return.agent = Specialists[1]

\* all three rounds were run and nobody stated 50 or more
NoTargetReached ==
    /\ dpc = "returned"
    /\ \A i \in Turns : discussion_history[i].confidence < 50

\* what the specialist at place k stated in the last round
LastStated(k) == discussion_history[(discussion_rounds - 1) * Len(Specialists) + k].confidence

\* C16 as stated: when nobody reached 50, the specialist returned is one that stated
\* the highest confidence of all rounds, and that confidence is returned with it.
C16_OverallMaximum ==
    NoTargetReached =>
        \E i \in Turns :
            /\ disc_return.agent = discussion_history[i].agent
            /\ disc_return.conf = discussion_history[i].confidence
            /\ \A j \in Turns : discussion_history[j].confidence <= disc_return.conf

\* C16 amended: when nobody reached 50, the specialist returned is the one whose
\* confidence of the last round is the highest, the first of them in the order of the
\* registry when several are level, and it is returned with that confidence; what
\* was stated in earlier rounds does not count.
C16_HighestOfLastRound ==
    NoTargetReached =>
        \E k \in 1..Len(Specialists) :
            /\ disc_return.agent = Specialists[k]
            /\ disc_return.conf = LastStated(k)
            /\ \A j \in 1..Len(Specialists) : LastStated(j) <= LastStated(k)
            /\ \A j \in 1..(k - 1) : LastStated(j) < LastStated(k)

\* C16 witness: nobody reached 50 and the specialist returned stated less in the last
\* round than another one had stated in an earlier round.
C16_Witness ==
    /\ NoTargetReached
    /\ \E i \in Turns :
        /\ discussion_history[i].agent # disc_return.agent
        /\ discussion_history[i].confidence > disc_return.conf

\* C17 as stated: a specialist's turn never ends the discussion with an exception:
\* whatever its evaluation does, the specialist is recorded (with confidence 0 when
\* the evaluation raised) and the discussion goes on with the turns that remain.
C17_RaiseDoesNotAbortRound ==
    [][ dpc = "turn" =>
            /\ dpc' # "raised"
            /\ Len(discussion_history') = Len(discussion_history) + 1
            /\ discussion_history'[Len(discussion_history')].agent = Specialists[agent_pos]
      ]_vars

\* ---------------------------------------------------------------------------
\* SpecialistAgent.evaluate_request: the keyword table.  A text is a sequence of
\* fragments; a fragment that is one of Keywords stands for a phrase of the
\* keyword list of that name, any other fragment for words no list holds.
\* ---------------------------------------------------------------------------

Keywords == {"socratic", "write", "tts", "greeting", "temp", "weather", "paper",
             "url", "research", "whatis", "search", "question"}

\* any(k in request_lower for k in [...]) for the list the keyword names
Has(text, keyword) == keyword \in Range(text)

confidence_cap == 95
can_handle_threshold == 60

\* result = confidence >= 60, min(confidence, 95)
Result(confidence) ==
    [can |-> confidence >= can_handle_threshold, conf |-> Min(confidence, confidence_cap)]

\* the branch  if self.name == "Writer"
WriterConfidence(text) ==
    IF Has(text, "socratic") THEN 98
    ELSE IF Has(text, "write") THEN 95
    ELSE IF Has(text, "tts") THEN 80
    ELSE IF Has(text, "greeting") THEN 90
    ELSE IF Has(text, "temp") THEN 60
    ELSE 50

\* the branch  elif self.name == "Grok"
GrokConfidence(text) ==
    IF Has(text, "socratic") THEN 20
    ELSE IF Has(text, "weather") THEN 96
    ELSE IF Has(text, "paper") THEN 94
    ELSE IF Has(text, "url") THEN 95
    ELSE IF Has(text, "research") THEN 92
    ELSE IF Has(text, "whatis") THEN 88
    ELSE IF Has(text, "search") THEN 85
    ELSE IF Has(text, "temp") THEN 85
    ELSE IF Has(text, "greeting") THEN 70
    ELSE IF Has(text, "question") THEN 80
    ELSE 50

\* evaluate_request(self, request_text): any other name falls through to (False, 0)
evaluate_request(name, text) ==
    IF name = "Writer" THEN Result(WriterConfidence(text))
    ELSE IF name = "Grok" THEN Result(GrokConfidence(text))
    ELSE [can |-> FALSE, conf |-> 0]

\* ---------------------------------------------------------------------------
\* The specialists' message handler (register_specialist_handlers).  One
\* coordination thread "t1" exists: the root message of a request and the
\* ASSIGNED message check_and_assign posted for it.  The channel adapter delivers
\* message events to every specialist's handler, any event any number of times.
\* ---------------------------------------------------------------------------

MaxDeliveries == 3

coordination_channel == "coord"

\* the id in `Request from <@...>` of the root message
RequestUser == "U1"

\* "q" is a double quote inside the task; "asg" is the words `ASSIGNED: <@Researcher>`
\* typed by the user as (part of) the task
HandlerTaskTexts == {<<"w">>, <<"w", "q", "w">>, <<"asg">>}

QuotedAssignee == Specialists[1]

\* handlers.py: a specialist's report quotes the task it evaluated
QuotingReportMsg(n, c, task) == Msg("report", n, c, task)

\* specialist_agent.py: <name> working on task...
StatusMsg(n) == Msg("status", n, 0, <<>>)

\* The events the adapter may deliver: the root (evaluation request), the ASSIGNED
\* message, the same words in another channel, the same words posted by another
\* bot, and the same words typed by a human inside the thread or as a new
\* top-level message of the coordination channel; and what the specialists' bots
\* post in the thread: a report, which quotes the task, the status message of an
\* execution, and a bot message that repeats the request.
HandlerEvents ==
    LET root == thread[1]
        asg  == thread[2]
    IN  { Event(coordination_channel, TRUE, "orchestrator", "t1", root),
          Event(coordination_channel, TRUE, "orchestrator", "t1", asg),
          Event("other", TRUE, "orchestrator", "t1", asg),
          Event(coordination_channel, TRUE, "specialist", "t1", asg),
          Event(coordination_channel, FALSE, "human", "t1", asg),
          Event(coordination_channel, FALSE, "human", "own", asg),
          Event(coordination_channel, TRUE, "specialist", "t1",
                QuotingReportMsg(asg.name, 60, root.text)),
          Event(coordination_channel, TRUE, "specialist", "t1", StatusMsg(asg.name)),
          Event(coordination_channel, TRUE, "specialist", "t1", root) }

\* (a variant without the bot filter)
AcceptsAnySender(ev) == ev.channel = coordination_channel

\* the channel test and the bot filter at the head of the handler
Accepts(ev) ==
    /\ ev.channel = coordination_channel
    /\ ~(ev.bot_id /\ ev.user # "orchestrator")

\* "please evaluate" in text and f"<@{spec.bot_user_id}>" in text: the root message
\* ends with the mentions of all specialists and the words please evaluate
IsEvaluationFor(msg, S) == msg.kind = "root" /\ S \in SpecialistNames

IsAssignmentForAnyone(msg, S) ==
    \/ msg.kind = "assigned"
    \/ msg.kind \in {"root", "report"} /\ "asg" \in Range(msg.text)

\* f"ASSIGNED: <@{spec.bot_user_id}>" in text
IsAssignmentFor(msg, S) ==
    \/ msg.kind = "assigned" /\ msg.name = S
    \/ msg.kind \in {"root", "report"} /\ "asg" \in Range(msg.text) /\ S = QuotedAssignee

\* which branch of the handler an event takes in specialist S
Branch(ev, S) ==
    IF ~Accepts(ev) THEN "ignored"
    ELSE IF IsEvaluationFor(ev.msg, S) THEN "evaluation"
    ELSE IF IsAssignmentFor(ev.msg, S) THEN "assignment"
    ELSE "none"

\* what follows `Task: "` in the root message: the task, the closing quote, the
\* mentions and the words please evaluate
RootBody(task) == task \o <<"q", "eval">>

NonGreedyTask(t) == UpToQuote(t)

RECURSIVE UpToLastQuote(_)
\* the greedy group of r'Task: "(.*)"' with DOTALL: everything up to the last quote
UpToLastQuote(t) ==
    IF t = <<>> THEN <<>>
    ELSE IF t[Len(t)] = "q" THEN SubSeq(t, 1, Len(t) - 1)
    ELSE UpToLastQuote(SubSeq(t, 1, Len(t) - 1))

\* the task the factored handlers take from a root message: r'Task: "(.*)"'
FactoredHandlerTask(task) == UpToLastQuote(RootBody(task))

\* conversations_replies(ts=thread_ts): the thread the event belongs to
RepliesOf(ev) == IF ev.thread_ts = "t1" THEN thread ELSE <<ev.msg>>

RECURSIVE FirstRequest(_)
\* the first message in which both `Request from <@(\w+)>` and `Task: "(.*)"` match
FirstRequest(msgs) ==
    IF msgs = <<>> THEN [found |-> FALSE, user |-> "", task |-> <<>>]
    ELSE IF Head(msgs).kind = "root"
         THEN [found |-> TRUE, user |-> RequestUser,
               task |-> UpToLastQuote(RootBody(Head(msgs).text))]
    ELSE FirstRequest(Tail(msgs))

AssignmentThread(S, ev, req) ==
    [spec |-> S, task |-> req.task, user |-> req.user, thread_ts |-> ev.thread_ts,
     event |-> ev, state |-> "started"]

\* the specialist is inside a call of process_assignment
Executing(S, execs) ==
    \E i \in 1..Len(execs) : execs[i].spec = S /\ execs[i].state = "running"

\* (a variant with one worker per specialist: an evaluation waits for the execution)
EvaluationRunnableWhenIdle(S, execs) == ~Executing(S, execs)

\* threading.Thread(target=run_evaluation, daemon=True).start(): every evaluation
\* has a thread of its own, which waits for nothing the specialist is doing
EvaluationRunnable(S, execs) == TRUE

HandlerInit ==
    /\ \E task \in HandlerTaskTexts, a \in SpecialistNames :
          /\ thread = <<RootMsg(task), AssignedMsg(a)>>
          /\ final = [agent |-> a, conf |-> 60]
          /\ attempts = <<[kind |-> "assigned", name |-> a, ok |-> TRUE]>>
    /\ pc = "done"
    /\ evaluations = <<>>
    /\ now = 0
    /\ start_time = 0
    /\ retry_after = 0
    /\ exit = "all"
    /\ negotiation = "none"
    /\ scanned = 0
    /\ sumRetry = 0
    /\ sumSlept = 0
    /\ rlCount = 0
    /\ envPosts = 0
    /\ DiscIdle
    /\ HandlerIdle
    /\ EvalIdle
    /\ MultiIdle

Delivered(S, ev, fetch, started) ==
    /\ deliveries < MaxDeliveries
    /\ deliveries' = deliveries + 1
    /\ last_event' = [spec |-> S, event |-> ev, fetch |-> fetch, started |-> started]

\* wrong channel, or a bot that is not the orchestrator: return
HandleIgnored ==
    \E S \in SpecialistNames, ev \in HandlerEvents :
        /\ Branch(ev, S) = "ignored"
        /\ Delivered(S, ev, "none", FALSE)
        /\ UNCHANGED <<evalThreads, assignThreads, executions>>
        /\ UNCHANGED <<collectorVars, discVars>>
        /\ UNCHANGED <<evalVars, multiVars>>

\* neither branch applies (an assignment addressed to somebody else): nothing happens
HandleOther ==
    \E S \in SpecialistNames, ev \in HandlerEvents :
        /\ Branch(ev, S) = "none"
        /\ Delivered(S, ev, "none", FALSE)
        /\ UNCHANGED <<evalThreads, assignThreads, executions>>
        /\ UNCHANGED <<collectorVars, discVars>>
        /\ UNCHANGED <<evalVars, multiVars>>

\* evaluation phase: a run_evaluation thread is started
HandleEvaluation ==
    \E S \in SpecialistNames, ev \in HandlerEvents :
        /\ Branch(ev, S) = "evaluation"
        /\ Delivered(S, ev, "none", FALSE)
        /\ evalThreads' = [evalThreads EXCEPT ![S] = @ + 1]
        /\ UNCHANGED <<assignThreads, executions>>
        /\ UNCHANGED <<collectorVars, discVars>>
        /\ UNCHANGED <<evalVars, multiVars>>

\* assignment phase, conversations_replies raises: logged, return
HandleAssignmentFetchFailed ==
    \E S \in SpecialistNames, ev \in HandlerEvents :
        /\ Branch(ev, S) = "assignment"
        /\ Delivered(S, ev, "raised", FALSE)
        /\ UNCHANGED <<evalThreads, assignThreads, executions>>
        /\ UNCHANGED <<collectorVars, discVars>>
        /\ UNCHANGED <<evalVars, multiVars>>

\* assignment phase, no message of the fetched thread matches both patterns: the
\* loop ends without starting anything
HandleAssignmentNoRequest ==
    \E S \in SpecialistNames, ev \in HandlerEvents :
        /\ Branch(ev, S) = "assignment"
        /\ ~FirstRequest(RepliesOf(ev)).found
        /\ Delivered(S, ev, "ok", FALSE)
        /\ UNCHANGED <<evalThreads, assignThreads, executions>>
        /\ UNCHANGED <<collectorVars, discVars>>
        /\ UNCHANGED <<evalVars, multiVars>>

\* assignment phase: the request is re-parsed and a run_assignment thread is started
HandleAssignmentStarted ==
    \E S \in SpecialistNames, ev \in HandlerEvents :
        /\ Branch(ev, S) = "assignment"
        /\ FirstRequest(RepliesOf(ev)).found
        /\ Delivered(S, ev, "ok", TRUE)
        /\ assignThreads' =
              Append(assignThreads, AssignmentThread(S, ev, FirstRequest(RepliesOf(ev))))
        /\ UNCHANGED <<evalThreads, executions>>
        /\ UNCHANGED <<collectorVars, discVars>>
        /\ UNCHANGED <<evalVars, multiVars>>

\* assignment phase, Thread.start() raises: "Thread creation failed" is posted
HandleAssignmentThreadFailed ==
    \E S \in SpecialistNames, ev \in HandlerEvents :
        /\ Branch(ev, S) = "assignment"
        /\ FirstRequest(RepliesOf(ev)).found
        /\ Delivered(S, ev, "ok", FALSE)
        /\ thread' = Append(thread, Msg("threadfailed", S, 0, <<>>))
        /\ UNCHANGED <<evalThreads, assignThreads, executions>>
        /\ UNCHANGED <<pc, evaluations, now, start_time, retry_after, final, attempts,
                       exit, negotiation, scanned, sumRetry, sumSlept, rlCount, envPosts>>
        /\ UNCHANGED discVars
        /\ UNCHANGED <<evalVars, multiVars>>

\* a run_evaluation thread runs: evaluate_request, then the report is posted; a
\* post that raises is logged
RunEvaluation ==
    \E S \in SpecialistNames, ok \in BOOLEAN :
        /\ evalThreads[S] > 0
        /\ EvaluationRunnable(S, executions)
        /\ evalThreads' = [evalThreads EXCEPT ![S] = @ - 1]
        /\ thread' = IF ok
                     THEN Append(thread,
                                 ReportMsg(S, evaluate_request(S, FactoredHandlerTask(thread[1].text)).conf))
                     ELSE thread
        /\ UNCHANGED <<deliveries, assignThreads, executions, last_event>>
        /\ UNCHANGED <<pc, evaluations, now, start_time, retry_after, final, attempts,
                       exit, negotiation, scanned, sumRetry, sumSlept, rlCount, envPosts>>
        /\ UNCHANGED discVars
        /\ UNCHANGED <<evalVars, multiVars>>

\* a run_assignment thread runs: process_method(request_text, user_id, thread_ts,
\* full_context) is called
RunAssignment ==
    \E i \in 1..Len(assignThreads) :
        /\ executions' = Append(executions, [assignThreads[i] EXCEPT !.state = "running"])
        /\ assignThreads' = SubSeq(assignThreads, 1, i - 1)
                              \o SubSeq(assignThreads, i + 1, Len(assignThreads))
        /\ UNCHANGED <<deliveries, evalThreads, last_event>>
        /\ UNCHANGED <<collectorVars, discVars>>
        /\ UNCHANGED <<evalVars, multiVars>>

\* process_assignment returns or raises (the error post is best effort): the
\* run_assignment thread ends
FinishAssignment ==
    \E i \in 1..Len(executions) :
        /\ executions[i].state = "running"
        /\ executions' = [executions EXCEPT ![i].state = "finished"]
        /\ UNCHANGED <<deliveries, evalThreads, assignThreads, last_event>>
        /\ UNCHANGED <<collectorVars, discVars>>
        /\ UNCHANGED <<evalVars, multiVars>>

HandlerNext ==
    \/ HandleIgnored
    \/ HandleOther
    \/ HandleEvaluation
    \/ HandleAssignmentFetchFailed
    \/ HandleAssignmentNoRequest
    \/ HandleAssignmentStarted
    \/ HandleAssignmentThreadFailed
    \/ RunEvaluation
    \/ RunAssignment
    \/ FinishAssignment

\* a started thread is scheduled sooner or later
HandlerSpec ==
    HandlerInit /\ [][HandlerNext]_vars /\ WF_vars(RunAssignment) /\ WF_vars(RunEvaluation)

\* the calls of process_assignment that deliveries of the orchestrator's ASSIGNED
\* message of the coordination thread have led to
ExecutionsOfThread ==
    {i \in 1..Len(executions) :
        /\ executions[i].thread_ts = "t1"
        /\ executions[i].event.user = "orchestrator"
        /\ executions[i].spec = thread[2].name}

\* C18: for the coordination thread the assigned specialist's process_assignment is
\* invoked exactly once, however often the adapter delivers the ASSIGNED message:
\* there is never a second call
C18_ExecutedOnce == Cardinality(ExecutionsOfThread) <= 1

\* C19: process_assignment of S is started only by a coordination-channel message
\* holding `ASSIGNED: <@S>` with S's own id: an assignment addressed to S starts
\* nothing in another specialist, and an evaluation request starts nothing in anyone
C19_OnlyOwnAssignmentStarts ==
    \A r \in Range(assignThreads) \cup Range(executions) :
        /\ r.event.channel = coordination_channel
        /\ r.event.msg.kind = "assigned"
        /\ r.event.msg.name = r.spec

\* the root and the ASSIGNED message have both been delivered to the other
\* specialist and to the assigned one, and only the assigned one executes
C19_Witness ==
    /\ deliveries = MaxDeliveries
    /\ Len(executions) = 1
    /\ executions[1].spec = thread[2].name
    /\ last_event.spec # thread[2].name
    /\ last_event.event.msg = thread[2]
    /\ Accepts(last_event.event)
    /\ \E S \in SpecialistNames : evalThreads[S] > 0

\* the run_assignment threads started so far, run or not
StartedCount == Len(assignThreads) + Len(executions)

\* process_assignment has been called in S with the task and the user of the root
ExecutedRootIn(S) ==
    \E i \in 1..Len(executions) :
        /\ executions[i].spec = S
        /\ executions[i].task = thread[1].text
        /\ executions[i].user = RequestUser

\* C20 as stated: whenever S's handler receives the orchestrator's ASSIGNED message
\* addressed to S, S eventually calls process_assignment with the task and the user parsed from
\* the root, whatever the adapter does
C20_AssignedAlwaysExecuted ==
    \A S \in SpecialistNames :
        (/\ last_event.spec = S
         /\ last_event.event.user = "orchestrator"
         /\ Branch(last_event.event, S) = "assignment")
            ~> ExecutedRootIn(S)

\* C20 as the code has it: a receipt whose thread fetch succeeds, whose thread
\* holds the request and whose worker thread starts is eventually followed by the
\* call, with the task and the user parsed from the root and the thread's id; a
\* receipt where one of these fails starts nothing
C20_ExecutedWhenFetchedAndStarted ==
    /\ [](\A r \in Range(assignThreads) \cup Range(executions) :
             /\ r.task = thread[1].text
             /\ r.user = RequestUser
             /\ r.thread_ts = "t1")
    /\ [][deliveries' > deliveries =>
             IF /\ Branch(last_event'.event, last_event'.spec) = "assignment"
                /\ last_event'.fetch = "ok"
                /\ FirstRequest(RepliesOf(last_event'.event)).found
                /\ last_event'.started
             THEN /\ Len(assignThreads') = Len(assignThreads) + 1
                  /\ assignThreads'[Len(assignThreads')].spec = last_event'.spec
             ELSE assignThreads' = assignThreads]_vars
    /\ \A n \in 1..MaxDeliveries : (StartedCount >= n) ~> (Len(executions) >= n)

\* a delivery of the ASSIGNED message has led to the call in the assigned
\* specialist, with a task that holds a double quote, taken whole from the root
C20_Witness ==
    /\ deliveries >= 2
    /\ assignThreads = <<>>
    /\ Len(executions) = 1
    /\ executions[1].task = <<"w", "q", "w">>
    /\ executions[1].user = RequestUser
    /\ executions[1].spec = thread[2].name

\* ---------------------------------------------------------------------------
\* The inline versions in main.py of the resolver's rule and of the handlers'
\* task pattern, for comparison with the factored ones.
\* ---------------------------------------------------------------------------

\* main.py: if confidence > 0 and agent_name in specialists
InlineQualifies(item) == item[2] > 0 /\ item[1] \in SpecialistNames

\* what the inline check_and_assign posts for a collected mapping: it holds no
\* discussion and no threshold of 30
InlineOutcome(evals) ==
    IF evals = <<>> THEN [kind |-> "noresponse", name |-> ""]
    ELSE IF InlineQualifies(ArgMax(evals))
         THEN [kind |-> "assigned", name |-> ArgMax(evals)[1]]
         ELSE [kind |-> "decline", name |-> ""]

\* the task the inline handlers take from a root message: r'Task: "(.*?)"'
InlineHandlerTask(task) == UpToQuote(RootBody(task))

\* C21: the factored check_and_assign and handlers behave as the inline ones of
\* main.py do: for the mapping collected the terminal message posted is the one
\* the inline rule gives, and the task text taken from the root is the same
C21_SameAsInline ==
    /\ FactoredHandlerTask(thread[1].text) = InlineHandlerTask(thread[1].text)
    /\ (/\ pc = "done"
        /\ exit \in {"all", "timeout"}
        /\ attempts # <<>>
        /\ attempts[Len(attempts)].ok)
       => LET a == attempts[Len(attempts)]
              o == InlineOutcome(evaluations)
          IN  /\ a.kind = o.kind
              /\ a.kind = "assigned" => a.name = o.name

\* C22: the task recovered from the root message equals the text the orchestrator
\* posted, embedded double quotes included, both when a specialist parses it
\* (evaluation and assignment phases) and when the resolver extracts it to start
\* the discussion
C22_TaskRoundTrip ==
    LET posted == thread[1].text
    IN  /\ FactoredHandlerTask(posted) = posted
        /\ \A r \in Range(assignThreads) \cup Range(executions) : r.task = posted
        /\ ExtractTask(thread).found /\ ExtractTask(thread).task = posted

\* the names of the specialists whose report is in the thread
Reporters == {thread[i].name : i \in {j \in 1..Len(thread) : thread[j].kind = "report"}}

\* C27: every name in the collector's mapping is the name of a specialist that
\* posted a confidence report in the thread; the root message, which quotes the
\* user's text, and other messages create no entry
C27_MappingNamesAreReporters == Names(evaluations) \subseteq Reporters

\* the ASSIGNED posts attempted
AssignedAttempts == {i \in 1..Len(attempts) : attempts[i].kind = "assigned"}

\* C28 as stated: the specialist named in an ASSIGNED message has its report in the
\* mapping collected for the thread
C28_AssignedHasReported ==
    \A i \in AssignedAttempts :
        attempts[i].ok => attempts[i].name \in Names(evaluations)

\* C28 as the code has it: the specialist named in an ASSIGNED message is a
\* registered specialist, and it is either in the collected mapping or the winner
\* the discussion returned, which is held among all registered specialists
C28_AssignedReportedOrDiscussionWinner ==
    \A i \in AssignedAttempts :
        /\ attempts[i].name \in SpecialistNames
        /\ \/ attempts[i].name \in Names(evaluations)
           \/ negotiation = "invoked" /\ final.agent = attempts[i].name

\* the collector timed out with one report only, and the discussion gave the task
\* to the specialist that had not reported
C28_Witness ==
    /\ pc = "done"
    /\ exit = "timeout"
    /\ Len(evaluations) = 1
    /\ negotiation = "invoked"
    /\ \E i \in AssignedAttempts :
          attempts[i].ok /\ attempts[i].name \notin Names(evaluations)

\* a handler invocation has started a run_evaluation or a run_assignment thread
StartsWork ==
    \/ \E S \in SpecialistNames : evalThreads'[S] > evalThreads[S]
    \/ Len(assignThreads') > Len(assignThreads)

\* C29: a handler acts only on coordination-channel messages from the orchestrator
\* or from non-bot users; a message posted by a specialist's bot (report, status,
\* anything else) starts no evaluation and no execution in any handler
C29_BotMessagesIgnored ==
    /\ [][StartsWork =>
             /\ last_event'.event.channel = coordination_channel
             /\ \/ last_event'.event.user = "orchestrator"
                \/ ~last_event'.event.bot_id]_vars
    /\ [][(deliveries' > deliveries /\ last_event'.event.user = "specialist") =>
             UNCHANGED <<evalThreads, assignThreads, executions, thread>>]_vars

\* the report that quotes a task holding the words ASSIGNED: <@Researcher> has been
\* delivered to Researcher's handler, and nothing was started
C29_Witness ==
    /\ last_event.spec = QuotedAssignee
    /\ last_event.event.user = "specialist"
    /\ last_event.event.msg.kind = "report"
    /\ "asg" \in Range(last_event.event.msg.text)
    /\ assignThreads = <<>>
    /\ executions = <<>>
    /\ \A S \in SpecialistNames : evalThreads[S] = 0

\* the report of specialist S is in the thread
Reported(S) == \E i \in 1..Len(thread) : thread[i].kind = "report" /\ thread[i].name = S

\* C26: the handler runs neither evaluate_request nor process_assignment on the
\* delivery thread: a delivery calls neither and posts no report; each runs on a
\* worker thread of its own, so the evaluation of a specialist that is executing a
\* task still runs
C26_WorkersNeverBlockDelivery ==
    /\ [][deliveries' > deliveries =>
             /\ executions' = executions
             /\ \A S \in SpecialistNames : Reported(S)' = Reported(S)]_vars
    /\ \A S \in SpecialistNames : (evalThreads[S] > 0) ~> (evalThreads[S] = 0)

\* the assigned specialist is inside process_assignment, its evaluation request
\* was the last thing delivered to it, and its report is in the thread
C26_Witness ==
    \E S \in SpecialistNames :
        /\ Executing(S, executions)
        /\ last_event.spec = S
        /\ Branch(last_event.event, S) = "evaluation"
        /\ evalThreads[S] = 0
        /\ Reported(S)

\* ---------------------------------------------------------------------------
\* evaluate_request called on its own, and one request evaluated by three
\* specialists and resolved.
\* ---------------------------------------------------------------------------

MaxEvalCalls == 2

ScenarioSpecialists == <<"Researcher", "Writer", "Grok">>
ScenarioNames == {ScenarioSpecialists[i] : i \in 1..Len(ScenarioSpecialists)}

\* "what's the weather in Boston"
WeatherTask == <<"w", "weather", "w">>
\* "research quantum computing"
QuantumTask == <<"research", "w">>

EvalTasks ==
    {WeatherTask, QuantumTask, <<"w">>}
        \cup {<<k>> : k \in Keywords}
        \cup {<<"socratic", "research">>, <<"url", "weather">>, <<"temp", "write">>}

\* confidence >= min_confidence and agent_name in specialists, for a given registry
QualifiesIn(item, names) == item[2] >= min_confidence /\ item[1] \in names

\* what the resolver does with a collected mapping, up to the discussion
ScenarioOutcome(mapping) ==
    IF mapping = <<>> THEN [kind |-> "noresponse", name |-> "", mapping |-> mapping]
    ELSE IF MaxConfidence(mapping) < discussion_threshold
         THEN [kind |-> "discussion", name |-> "", mapping |-> mapping]
    ELSE IF QualifiesIn(ArgMax(mapping), ScenarioNames)
         THEN [kind |-> "assigned", name |-> ArgMax(mapping)[1], mapping |-> mapping]
    ELSE [kind |-> "decline", name |-> ArgMax(mapping)[1], mapping |-> mapping]

EvalInit ==
    /\ \E task \in EvalTasks :
          /\ e_task = task
          /\ thread = <<RootMsg(task)>>
    /\ e_calls = <<>>
    /\ e_ran = {}
    /\ e_reports = <<>>
    /\ e_outcome = NoOutcome
    /\ pc = "start"
    /\ evaluations = <<>>
    /\ now = 0
    /\ start_time = 0
    /\ retry_after = 0
    /\ final = NoFinal
    /\ attempts = <<>>
    /\ exit = "none"
    /\ negotiation = "none"
    /\ scanned = 0
    /\ sumRetry = 0
    /\ sumSlept = 0
    /\ rlCount = 0
    /\ envPosts = 0
    /\ DiscIdle
    /\ HandlerIdle
    /\ MultiIdle

\* evaluate_request is called for a specialist
CallEvaluate ==
    \E name \in ScenarioNames :
        /\ Len(e_calls) < MaxEvalCalls
        /\ e_calls' = Append(e_calls, [name |-> name, result |-> evaluate_request(name, e_task)])
        /\ UNCHANGED <<e_task, e_ran, e_reports, e_outcome>>
        /\ UNCHANGED <<collectorVars, discVars, handlerVars, multiVars>>

\* run_evaluation of a specialist: evaluate_request, then the report is posted (a
\* post that raises is logged)
ScenarioRunEvaluation ==
    \E name \in ScenarioNames \ e_ran, ok \in BOOLEAN :
        /\ e_ran' = e_ran \cup {name}
        /\ e_reports' = IF ok
                        THEN Append(e_reports, ReportMsg(name, evaluate_request(name, e_task).conf))
                        ELSE e_reports
        /\ UNCHANGED <<e_task, e_calls, e_outcome>>
        /\ UNCHANGED <<collectorVars, discVars, handlerVars, multiVars>>

\* check_and_assign once every evaluation thread has run: the thread is scanned and
\* the mapping resolved
ScenarioResolve ==
    /\ e_ran = ScenarioNames
    /\ e_outcome = NoOutcome
    /\ e_outcome' = ScenarioOutcome(ScanMessages(<<RootMsg(e_task)>> \o e_reports, <<>>))
    /\ UNCHANGED <<e_task, e_calls, e_ran, e_reports>>
    /\ UNCHANGED <<collectorVars, discVars, handlerVars, multiVars>>

EvalNext == CallEvaluate \/ ScenarioRunEvaluation \/ ScenarioResolve

EvalSpec == EvalInit /\ [][EvalNext]_vars

\* C23: for the task "what's the weather in Boston" and the specialists Researcher,
\* Writer and Grok, the confidences reported are Researcher 50, Writer 50 and Grok
\* 96, the collector has all three, the discussion is skipped and Grok is assigned
C23_WeatherScenario ==
    (/\ e_task = WeatherTask
     /\ Len(e_reports) = Len(ScenarioSpecialists)
     /\ e_outcome # NoOutcome)
    => /\ Range(e_outcome.mapping) = {<<"Researcher", 50>>, <<"Writer", 50>>, <<"Grok", 96>>}
       /\ e_outcome.kind = "assigned"
       /\ e_outcome.name = "Grok"

\* C24: evaluate_request gives the same result on every call for the same name and
\* text, and for the specialist named Researcher and the text "research quantum
\* computing" that result is (True, 90)
C24_ResearcherQuantum ==
    /\ \A i, j \in 1..Len(e_calls) :
          e_calls[i].name = e_calls[j].name => e_calls[i].result = e_calls[j].result
    /\ \A i \in 1..Len(e_calls) :
          (e_task = QuantumTask /\ e_calls[i].name = "Researcher")
              => e_calls[i].result = [can |-> TRUE, conf |-> 90]

\* ---------------------------------------------------------------------------
\* Several requests in flight at once: handle_orchestrator_mention runs once per
\* request, each on a thread of the adapter's pool; every request has its own
\* coordination thread, its own check_and_assign and its own active_requests
\* entry.  The specialists' handlers and worker threads serve all of them.
\* ---------------------------------------------------------------------------

\* the task texts of the requests: "write a ...", plain words, "say ...", "hi"
MTasks == <<<<"write">>, <<"w">>, <<"tts">>, <<"greeting">>>>
MTask(r) == MTasks[r]

\* the entry handle_orchestrator_mention stores for request r
Entry(r) == [present |-> TRUE, user_id |-> r, request |-> MTask(r)]

\* (a variant that starts the resolver thread before it stores the entry)
MentionStepsStartFirst == <<"post", "start", "insert">>

\* handle_orchestrator_mention: the root is posted, the entry is stored under the
\* ts of the root, the check_and_assign thread is started
MentionSteps == <<"post", "insert", "start">>

MentionStep(r) == IF m_pc[r] <= Len(MentionSteps) THEN MentionSteps[m_pc[r]] ELSE "done"

\* coord_msg['ts']: the adapter gives every posted root a ts of its own
NextTs == Cardinality({k \in Requests : m_threads[k] # <<>>}) + 1

\* (a variant that replies to the newest thread of the channel)
ReplyThreadNewest(p) == CHOOSE k \in Requests : m_threads[k] # <<>> /\ NextTs = k + 1

\* chat_postMessage(thread_ts=msg_ts): the reply goes to the thread of the message
\* that asked for the evaluation
ReplyThread(p) == p.msg_ts

RECURSIVE ChannelHistory(_)
ChannelHistory(k) == IF k = 0 THEN <<>> ELSE ChannelHistory(k - 1) \o m_threads[k]

\* (a variant that reads the whole channel)
FetchedChannel(k) == ChannelHistory(MaxRequests)

\* conversations_replies(channel=coordination_channel, ts=thread_ts)
Fetched(k) == m_threads[k]

\* the regular assignment for a mapping
BasicOutcome(mapping) ==
    IF Qualifies(ArgMax(mapping)) THEN AssignedMsg(ArgMax(mapping)[1])
    ELSE DeclineMsg(ArgMax(mapping)[1], ArgMax(mapping)[2])

\* the terminal messages check_and_assign can post for a mapping: below the
\* discussion threshold the discussion may make any registered specialist the
\* winner, or fail and leave the regular assignment
Outcomes(mapping) ==
    IF mapping = <<>> THEN {NoResponseMsg}
    ELSE {BasicOutcome(mapping)}
            \cup (IF MaxConfidence(mapping) < discussion_threshold
                  THEN {AssignedMsg(n) : n \in SpecialistNames}
                  ELSE {})

MultiInit ==
    /\ MultiIdle
    /\ EvalIdle
    /\ HandlerIdle
    /\ DiscIdle
    /\ thread = <<RootMsg(<<>>)>>
    /\ pc = "start"
    /\ evaluations = <<>>
    /\ now = 0
    /\ start_time = 0
    /\ retry_after = 0
    /\ final = NoFinal
    /\ attempts = <<>>
    /\ exit = "none"
    /\ negotiation = "none"
    /\ scanned = 0
    /\ sumRetry = 0
    /\ sumSlept = 0
    /\ rlCount = 0
    /\ envPosts = 0

MultiOthersUnchanged == UNCHANGED <<collectorVars, discVars, handlerVars, evalVars>>

\* the root message of request r is posted; a post that raises ends the handler
MentionPost ==
    \E r \in Requests, ok \in BOOLEAN :
        /\ MentionStep(r) = "post"
        /\ IF ok
           THEN /\ m_threads' = [m_threads EXCEPT ![NextTs] = <<RootMsg(MTask(r))>>]
                /\ m_key' = [m_key EXCEPT ![r] = NextTs]
                /\ m_pc' = [m_pc EXCEPT ![r] = @ + 1]
           ELSE /\ m_pc' = [m_pc EXCEPT ![r] = Len(MentionSteps) + 1]
                /\ UNCHANGED <<m_threads, m_key>>
        /\ UNCHANGED <<active_requests, m_pending, m_rootseen, m_mapping, m_res, m_handled>>
        /\ MultiOthersUnchanged

\* active_requests[coord_thread_ts] = {...}
MentionInsert ==
    \E r \in Requests :
        /\ MentionStep(r) = "insert"
        /\ active_requests' = [active_requests EXCEPT ![m_key[r]] = Entry(r)]
        /\ m_pc' = [m_pc EXCEPT ![r] = @ + 1]
        /\ UNCHANGED <<m_key, m_threads, m_pending, m_rootseen, m_mapping, m_res, m_handled>>
        /\ MultiOthersUnchanged

\* threading.Thread(target=check_and_assign, ...).start()
MentionStart ==
    \E r \in Requests :
        /\ MentionStep(r) = "start"
        /\ m_res' = [m_res EXCEPT ![r] = "polling"]
        /\ m_pc' = [m_pc EXCEPT ![r] = @ + 1]
        /\ UNCHANGED <<m_key, m_threads, active_requests, m_pending, m_rootseen,
                       m_mapping, m_handled>>
        /\ MultiOthersUnchanged

\* a specialist's handler gets the root of thread k: the evaluation phase starts a
\* run_evaluation thread
DeliverRoot ==
    \E S \in SpecialistNames, k \in Requests :
        /\ m_threads[k] # <<>>
        /\ <<S, k>> \notin m_rootseen
        /\ m_rootseen' = m_rootseen \cup {<<S, k>>}
        /\ m_pending' = m_pending \cup
              {[spec |-> S, msg_ts |-> k, task |-> FactoredHandlerTask(m_threads[k][1].text)]}
        /\ UNCHANGED <<m_pc, m_key, m_threads, active_requests, m_mapping, m_res, m_handled>>
        /\ MultiOthersUnchanged

\* a run_evaluation thread runs: evaluate_request, then the report is posted
MultiRunEvaluation ==
    \E p \in m_pending, ok \in BOOLEAN :
        /\ m_pending' = m_pending \ {p}
        /\ m_threads' =
              IF ok
              THEN [m_threads EXCEPT ![ReplyThread(p)] =
                       Append(@, QuotingReportMsg(p.spec,
                                                  evaluate_request(p.spec, p.task).conf,
                                                  p.task))]
              ELSE m_threads
        /\ UNCHANGED <<m_pc, m_key, active_requests, m_rootseen, m_mapping, m_res, m_handled>>
        /\ MultiOthersUnchanged

\* check_and_assign of request r, from the polling loop to the terminal message: the
\* thread only grows and the first report of a name wins, so the mapping the loop
\* has built when it is left (everybody responded, or the time is up) is the scan
\* of the last snapshot fetched; the terminal message is posted in the thread, if
\* the adapter takes it
MultiResolve ==
    \E r \in Requests, ok \in BOOLEAN :
        /\ m_res[r] = "polling"
        /\ LET mapping == ScanMessages(Fetched(m_key[r]), <<>>)
           IN  /\ m_mapping' = [m_mapping EXCEPT ![r] = mapping]
               /\ \E msg \in Outcomes(mapping) :
                     m_threads' = IF ok THEN [m_threads EXCEPT ![m_key[r]] = Append(@, msg)]
                                  ELSE m_threads
        /\ m_res' = [m_res EXCEPT ![r] = "done"]
        /\ UNCHANGED <<m_pc, m_key, active_requests, m_pending, m_rootseen, m_handled>>
        /\ MultiOthersUnchanged

\* a specialist's handler gets the ASSIGNED message of thread k addressed to it and
\* reads req_meta = active_requests.get(thread_ts, {})
DeliverAssigned ==
    \E S \in SpecialistNames, k \in Requests :
        /\ AssignedMsg(S) \in Range(m_threads[k])
        /\ m_handled' = m_handled \cup {[spec |-> S, key |-> k, meta |-> active_requests[k]]}
        /\ m_handled' # m_handled
        /\ UNCHANGED <<m_pc, m_key, m_threads, active_requests, m_pending, m_rootseen,
                       m_mapping, m_res>>
        /\ MultiOthersUnchanged

MultiNext ==
    \/ MentionPost
    \/ MentionInsert
    \/ MentionStart
    \/ DeliverRoot
    \/ MultiRunEvaluation
    \/ MultiResolve
    \/ DeliverAssigned

MultiSpec == MultiInit /\ [][MultiNext]_vars

\* the reports of the thread of request r
OwnReports(r) ==
    IF m_key[r] = 0 THEN {}
    ELSE {m \in Range(m_threads[m_key[r]]) : m.kind = "report"}

\* C25: each check_and_assign reads only the thread it was given: every entry of
\* the mapping of a request comes from a report in that request's thread; every
\* report is a reply in the thread of the evaluation request that caused it; and
\* the regular assignment of a thread is the one its own reports give
C25_ThreadsIsolated ==
    /\ \A r \in Requests : \A i \in 1..Len(m_mapping[r]) :
          \E m \in OwnReports(r) :
              /\ m.name = m_mapping[r][i][1]
              /\ m.conf = m_mapping[r][i][2]
              /\ m.text = MTask(r)
    /\ \A k \in Requests : \A m \in Range(m_threads[k]) :
          m.kind = "report" => m.text = m_threads[k][1].text
    /\ \A r \in Requests :
          (/\ m_res[r] = "done"
           /\ m_mapping[r] # <<>>
           /\ MaxConfidence(m_mapping[r]) >= discussion_threshold)
          => \A m \in Range(m_threads[m_key[r]]) :
                m.kind \in TerminalKinds => m = BasicOutcome(m_mapping[r])

\* two requests were in flight, both were resolved with every specialist's report
\* collected, and the two mappings differ
C25_Witness ==
    /\ \A r \in {1, 2} : m_res[r] = "done" /\ AllResponded(m_mapping[r])
    /\ m_mapping[1] # m_mapping[2]
    /\ \E k \in Requests : AssignedMsg("Writer") \in Range(m_threads[k])

\* C30: when a specialist handles the resolver's ASSIGNED message of a thread, the
\* active_requests entry of that thread is there, and it is the entry of that
\* request: the entry is stored before the resolver thread is started, an entry
\* is never removed or changed, and requests do not touch each other's entry
C30_EntryPresentAtAssignment ==
    /\ [](\A h \in m_handled :
             /\ h.meta.present
             /\ h.meta.request = m_threads[h.key][1].text)
    /\ [](\A r \in Requests : m_res[r] # "none" => active_requests[m_key[r]] = Entry(r))
    /\ [][\A k \in Requests :
             active_requests[k].present => active_requests'[k] = active_requests[k]]_vars

\* the ASSIGNED messages of two threads have been handled, each with the entry of
\* its own request
C30_Witness ==
    /\ Cardinality({h.key : h \in m_handled}) = 2
    /\ \A h \in m_handled : h.meta.present /\ h.meta.request = m_threads[h.key][1].text
    /\ \E h1, h2 \in m_handled : h1.meta.user_id # h2.meta.user_id
====
